---- MODULE Spec2Model ----
(***************************************************************************)
(* County/district overlap analysis of the congressional map generator     *)
(* (src/src/core/map_generator.py): CongressionalMapGenerator              *)
(* .analyze_counties and ._save_county_report.                             *)
(*                                                                         *)
(* Geometry.  Regions are axis-aligned boxes [minx, miny, maxx, maxy] with *)
(* integer corners, read as closed point sets the way shapely reads        *)
(* box(minx, miny, maxx, maxy): intersects() is true as soon as the two    *)
(* closed sets share a point (an edge or a corner is enough), area is      *)
(* width * height, and a box with minx = maxx is a degenerate ring of      *)
(* area 0.                                                                 *)
(*                                                                         *)
(* Numbers.  coverage_ratio = intersection_area / county_area is kept as   *)
(* the exact fraction [num, den]; fractions are compared by cross          *)
(* multiplication.  For the areas of this model (all below 64) the float   *)
(* the code computes orders against 0.95, 0 and 1 exactly as the fraction  *)
(* does: n/d is the double nearest to the quotient, and so is the literal  *)
(* 0.95, hence 19/20 > 0.95 is False in the code as well.                  *)
(* round(x, 4) is kept as an integer number of ten-thousandths.            *)
(* area_sq_km is county_area times the constant 111000**2; the record      *)
(* carries county_area and leaves the constant factor out (it exceeds the  *)
(* integer range of the checker and no branch depends on it).              *)
(*                                                                         *)
(* Specifications.                                                         *)
(*   Spec          analyze_counties called on a district region            *)
(*   SpecRing      the same, on a county table with open outer rings       *)
(*   SpecRun       main and run(): download, district boundary, county     *)
(*                 analysis, map, cleanup, exit status                     *)
(*   SpecSimplify  the keep-every-other-point step of src/scripts          *)
(*   SpecExtract   the county extraction of src/scripts (fixed name list)  *)
(* District codes and CD119FP values are sequences of characters, so that  *)
(* district_code[:2], district_code[3:] and lstrip('0') act as in Python.  *)
(***************************************************************************)
EXTENDS Integers, Sequences, FiniteSets, TLC

VARIABLES district_code, state_fips, district_geom, counties_gdf,
          state_counties, idx, intersecting_counties, counties_geojson,
          report, pc,
          districts_gdf, district_num, steps, raised, temp_dirs, index_html,
          run_result, exit_status, county_rings,
          boundary_geom, simplified, district_counties, script_pc

\* State of run() and main() around the county analysis.
runvars == <<districts_gdf, district_num, steps, raised, temp_dirs,
             index_html, run_result, exit_status>>

\* State of the stand-alone scripts under src/scripts.
scriptvars == <<boundary_geom, simplified, district_counties, script_pc>>

vars == <<district_code, state_fips, district_geom, counties_gdf,
          state_counties, idx, intersecting_counties, counties_geojson,
          report, pc, runvars, county_rings, scriptvars>>

\* ------------------------------------------------------------------ bounds
\* Longest county table that is read from the county shapefile.
MaxCounties == 3

\* ------------------------------------------------------- program constants
\* Variant of FullThreshold: 0.5.
FullThreshold_Half == [num |-> 50, den |-> 100]

\* is_full = coverage_ratio > 0.95, as the fraction 95/100.
FullThreshold == [num |-> 95, den |-> 100]

\* Number of decimals kept by round(c['coverage_ratio'], 4), as 10^4.
RatioScale == 10000

\* fips_map of _get_state_fips: <<first letter, second letter, FIPS code>>.
fips_map ==
    { <<"K","Y","21">>, <<"C","A","06">>, <<"T","X","48">>, <<"N","Y","36">>,
      <<"F","L","12">>, <<"P","A","42">>, <<"I","L","17">>, <<"O","H","39">>,
      <<"G","A","13">>, <<"N","C","37">>, <<"M","I","26">>, <<"N","J","34">>,
      <<"V","A","51">>, <<"W","A","53">>, <<"A","Z","04">>, <<"M","A","25">>,
      <<"T","N","47">>, <<"I","N","18">>, <<"M","O","29">>, <<"M","D","24">>,
      <<"W","I","55">>, <<"C","O","08">>, <<"M","N","27">>, <<"S","C","45">>,
      <<"A","L","01">>, <<"L","A","22">>, <<"O","R","41">>, <<"O","K","40">>,
      <<"C","T","09">>, <<"I","A","19">>, <<"M","S","28">>, <<"A","R","05">>,
      <<"U","T","49">>, <<"K","S","20">>, <<"N","V","32">>, <<"N","M","35">>,
      <<"W","V","54">>, <<"N","E","31">>, <<"I","D","16">>, <<"H","I","15">>,
      <<"N","H","33">>, <<"M","E","23">>, <<"R","I","44">>, <<"M","T","30">>,
      <<"D","E","10">>, <<"S","D","46">>, <<"N","D","38">>, <<"A","K","02">>,
      <<"V","T","50">>, <<"W","Y","56">> }

\* _get_state_fips: fips_map.get(district_code[:2]); "None" when absent.
get_state_fips(code) ==
    IF Len(code) >= 2 /\ \E e \in fips_map : e[1] = code[1] /\ e[2] = code[2]
    THEN (CHOOSE e \in fips_map : e[1] = code[1] /\ e[2] = code[2])[3]
    ELSE "None"

\* ---------------------------------------------------------------- geometry
box(minx, miny, maxx, maxy) ==
    [minx |-> minx, miny |-> miny, maxx |-> maxx, maxy |-> maxy]

Min(a, b) == IF a <= b THEN a ELSE b
Max(a, b) == IF a >= b THEN a ELSE b

\* geom.area
area(g) == (g.maxx - g.minx) * (g.maxy - g.miny)

\* Variant of intersects: true only when the interiors overlap.
intersects_InteriorOnly(a, b) ==
    /\ a.minx < b.maxx /\ b.minx < a.maxx
    /\ a.miny < b.maxy /\ b.miny < a.maxy

\* Variant of intersects: only the longitude ranges are compared.
intersects_XOnly(a, b) ==
    a.minx <= b.maxx /\ b.minx <= a.maxx

\* county_geom.intersects(district_geom): the closed sets share a point.
intersects(a, b) ==
    /\ a.minx <= b.maxx /\ b.minx <= a.maxx
    /\ a.miny <= b.maxy /\ b.miny <= a.maxy

\* Variant of intersection_area: the overlap is clipped in longitude only.
intersection_area_XOnly(a, b) ==
    Max(0, Min(a.maxx, b.maxx) - Max(a.minx, b.minx)) * (a.maxy - a.miny)

\* county_geom.intersection(district_geom).area; 0 for a shared edge or point
\* and for disjoint regions.
intersection_area(a, b) ==
    Max(0, Min(a.maxx, b.maxx) - Max(a.minx, b.minx))
  * Max(0, Min(a.maxy, b.maxy) - Max(a.miny, b.miny))

\* ------------------------------------------------------------- fractions
\* a > b for fractions with positive denominators.
RatioGT(a, b) == a.num * b.den > b.num * a.den
RatioEQ(a, b) == a.num * b.den = b.num * a.den

\* round(x, 4) in ten-thousandths, ties to even as Python rounds.
Round4(r) ==
    LET n == r.num * RatioScale
        q == n \div r.den
        m == n % r.den
    IN  IF 2 * m > r.den THEN q + 1
        ELSE IF 2 * m < r.den THEN q
        ELSE IF q % 2 = 0 THEN q ELSE q + 1

\* ----------------------------------------------------------------- inputs
County(name, geoid, statefp, geom) ==
    [NAME |-> name, GEOID |-> geoid, STATEFP |-> statefp, geometry |-> geom]

\* Rows the county shapefile may hold.
CountyPool ==
    { County("Anderson",  "21005", "21", box(2, 2, 4, 4)),
      County("Fayette",   "21067", "21", box(5, 5, 6, 6)),
      County("Bourbon",   "21017", "21", box(8, 8, 12, 12)),
      County("Clark",     "21049", "21", box(20, 20, 22, 22)),
      County("Estill",    "21065", "21", box(10, 0, 12, 2)),
      County("Madison",   "21151", "21", box(7, 0, 12, 1)),
      County("Scott",     "21209", "21", box(1, 0, 21, 1)),
      County("Jessamine", "21113", "21", box(-1, 0, 20, 1)),
      County("Woodford",  "21239", "21", box(3, 3, 3, 5)),
      County("Pike",      "21195", "21", box(2, 30, 4, 32)),
      County("Hamilton",  "39061", "39", box(0, 0, 5, 5)) }

\* District regions process_district_boundary may hand over.
DistrictPool == { box(0, 0, 10, 10), box(0, 0, 20, 20) }

\* District codes given on the command line, one character per element.
DistrictCodes == { <<"K","Y","-","0","6">>, <<"O","H","-","0","1">> }

\* County tables: sequences without repetition of at most MaxCounties rows.
CountyTables ==
    UNION { { s \in [1..n -> CountyPool] :
                \A i, j \in 1..n : i /= j => s[i] /= s[j] } : n \in 0..MaxCounties }

\* --------------------------------------------------------- analyze_counties
\* counties_gdf[counties_gdf['STATEFP'] == self.state_fips]
RECURSIVE FilterState(_, _)
FilterState(gdf, fips) ==
    IF gdf = <<>> THEN <<>>
    ELSE IF Head(gdf).STATEFP = fips
         THEN <<Head(gdf)>> \o FilterState(Tail(gdf), fips)
         ELSE FilterState(Tail(gdf), fips)

\* Variant of IsFull: coverage_ratio >= 0.95.
IsFull_NonStrict(coverage_ratio) == ~RatioGT(FullThreshold, coverage_ratio)

\* is_full = coverage_ratio > 0.95
IsFull(coverage_ratio) == RatioGT(coverage_ratio, FullThreshold)

\* Variant of CountyInfo: the ratio is taken against the district's area.
CountyInfo_DistrictArea(county, dgeom) ==
    LET county_area == area(county.geometry)
        coverage_ratio == [num |-> intersection_area(county.geometry, dgeom),
                           den |-> area(dgeom)]
    IN  [GEOID |-> county.GEOID, NAME |-> county.NAME,
         STATEFP |-> county.STATEFP, geometry |-> county.geometry,
         coverage_ratio |-> coverage_ratio,
         is_full |-> IsFull(coverage_ratio),
         county_area |-> county_area]

\* The county_info dictionary built for an intersecting county of non-zero
\* area.
CountyInfo(county, dgeom) ==
    LET county_area == area(county.geometry)
        coverage_ratio == [num |-> intersection_area(county.geometry, dgeom),
                           den |-> county_area]
    IN  [GEOID |-> county.GEOID, NAME |-> county.NAME,
         STATEFP |-> county.STATEFP, geometry |-> county.geometry,
         coverage_ratio |-> coverage_ratio,
         is_full |-> IsFull(coverage_ratio),
         county_area |-> county_area]

\* Variant of DivisionRaises: the error is raised for an intersection of
\* area 0.
DivisionRaises_Numerator(county) ==
    intersection_area(county.geometry, district_geom) = 0

\* intersection_area / county_area raises ZeroDivisionError.
DivisionRaises(county) == area(county.geometry) = 0

\* The whole for loop over a candidate table that raises on no county: the
\* records appended, in iteration order.
RECURSIVE Overlaps(_, _)
Overlaps(table, dgeom) ==
    IF table = <<>> THEN <<>>
    ELSE IF intersects(Head(table).geometry, dgeom)
         THEN <<CountyInfo(Head(table), dgeom)>> \o Overlaps(Tail(table), dgeom)
         ELSE Overlaps(Tail(table), dgeom)

\* Variant of InsertByRatio: an unstable sort that puts a record before the
\* records of equal ratio.
RECURSIVE InsertByRatio_Unstable(_, _)
InsertByRatio_Unstable(sorted, c) ==
    IF sorted = <<>> THEN <<c>>
    ELSE IF ~RatioGT(Head(sorted).coverage_ratio, c.coverage_ratio)
         THEN <<c>> \o sorted
         ELSE <<Head(sorted)>> \o InsertByRatio_Unstable(Tail(sorted), c)

\* list.sort(key=coverage_ratio, reverse=True): stable, so records of equal
\* ratio keep the order in which they were appended.
RECURSIVE InsertByRatio(_, _)
InsertByRatio(sorted, c) ==
    IF sorted = <<>> THEN <<c>>
    ELSE IF RatioGT(c.coverage_ratio, Head(sorted).coverage_ratio)
         THEN <<c>> \o sorted
         ELSE <<Head(sorted)>> \o InsertByRatio(Tail(sorted), c)

\* Variant of SortByRatio: the list is left in iteration order.
SortByRatio_Unsorted(s) == s

RECURSIVE SortByRatio(_)
SortByRatio(s) ==
    IF s = <<>> THEN <<>>
    ELSE InsertByRatio(SortByRatio(SubSeq(s, 1, Len(s) - 1)), s[Len(s)])

\* sum(1 for c in counties if c['is_full'])
RECURSIVE CountFull(_)
CountFull(s) ==
    IF s = <<>> THEN 0
    ELSE (IF Head(s).is_full THEN 1 ELSE 0) + CountFull(Tail(s))

\* Variant of CountPartial: counts the records whose ratio is below 0.95.
RECURSIVE CountPartial_BelowThreshold(_)
CountPartial_BelowThreshold(s) ==
    IF s = <<>> THEN 0
    ELSE (IF RatioGT(FullThreshold, Head(s).coverage_ratio) THEN 1 ELSE 0)
         + CountPartial_BelowThreshold(Tail(s))

\* sum(1 for c in counties if not c['is_full'])
RECURSIVE CountPartial(_)
CountPartial(s) ==
    IF s = <<>> THEN 0
    ELSE (IF ~Head(s).is_full THEN 1 ELSE 0) + CountPartial(Tail(s))

\* One entry of report['counties'].
ReportEntry(c) ==
    [name |-> c.NAME, geoid |-> c.GEOID,
     coverage_ratio |-> Round4(c.coverage_ratio),
     type |-> IF c.is_full THEN "full" ELSE "partial",
     area |-> c.county_area]

\* The report dictionary of _save_county_report.
BuildReport(code, counties) ==
    [district |-> code,
     total_counties |-> Len(counties),
     full_counties |-> CountFull(counties),
     partial_counties |-> CountPartial(counties),
     counties |-> [i \in 1..Len(counties) |-> ReportEntry(counties[i])]]

\* One feature of counties.geojson.
Feature(c) ==
    [GEOID |-> c.GEOID, NAME |-> c.NAME, coverage_ratio |-> c.coverage_ratio,
     is_full |-> c.is_full, geometry |-> c.geometry]

\* ------------------------------------------------------------ run inputs
\* s.lstrip('0') on a sequence of characters.
RECURSIVE lstrip0(_)
lstrip0(s) ==
    IF s /= <<>> /\ Head(s) = "0" THEN lstrip0(Tail(s)) ELSE s

\* _get_district_number: self.district_code[3:].lstrip('0')
get_district_number(code) == lstrip0(SubSeq(code, 4, Len(code)))

\* temp_dirs of cleanup_temp_files.
TempDirs == {"districts_raw", "counties_raw"}

\* exit_status while the process has not exited.
NoExit == -1

\* The outer ring of a box as a closed coordinate sequence (first = last).
ClosedRing(g) ==
    << <<g.minx, g.miny>>, <<g.maxx, g.miny>>, <<g.maxx, g.maxy>>,
       <<g.minx, g.maxy>>, <<g.minx, g.miny>> >>

\* The scripts have not run and hold nothing.
ScriptsIdle ==
    /\ boundary_geom = [type |-> "Polygon", coordinates |-> <<>>]
    /\ simplified = <<>>
    /\ district_counties = <<>>
    /\ script_pc = "idle"

\* ------------------------------------------------------------------ state
\* After __init__ and process_district_boundary: the code and FIPS of the
\* district, its region, and the county table on disk.  report and
\* counties_geojson hold the file written, <<>> while it is not written.
Init ==
    /\ district_code \in DistrictCodes
    /\ state_fips = get_state_fips(district_code)
    /\ district_geom \in DistrictPool
    /\ counties_gdf \in CountyTables
    /\ state_counties = <<>>
    /\ idx = 0
    /\ intersecting_counties = <<>>
    /\ counties_geojson = <<>>
    /\ report = <<>>
    /\ pc = "load"
    /\ districts_gdf = <<>>
    /\ district_num = get_district_number(district_code)
    /\ steps = <<>>
    /\ raised = "none"
    /\ temp_dirs = TempDirs
    /\ index_html = FALSE
    /\ run_result = "none"
    /\ exit_status = NoExit
    /\ county_rings = [i \in 1..Len(counties_gdf) |->
                           ClosedRing(counties_gdf[i].geometry)]
    /\ ScriptsIdle

\* analyze_counties, lines 125-134: read and filter the county table.
LoadCounties ==
    /\ pc = "load"
    /\ state_counties' = FilterState(counties_gdf, state_fips)
    /\ idx' = 1
    /\ intersecting_counties' = <<>>
    /\ pc' = "loop"
    /\ steps' = Append(steps, "analyze_counties")
    /\ UNCHANGED <<district_code, state_fips, district_geom, counties_gdf,
                   counties_geojson, report>>
    /\ UNCHANGED <<districts_gdf, district_num, raised, temp_dirs,
                   index_html, run_result, exit_status, county_rings,
                   scriptvars>>

\* One iteration of the for loop over state_counties.iterrows() on a county
\* that does not intersect the district: nothing is appended.
SkipCounty ==
    /\ pc = "loop"
    /\ idx <= Len(state_counties)
    /\ ~intersects(state_counties[idx].geometry, district_geom)
    /\ idx' = idx + 1
    /\ UNCHANGED <<district_code, state_fips, district_geom, counties_gdf,
                   state_counties, intersecting_counties, counties_geojson,
                   report, pc>>
    /\ UNCHANGED <<runvars, county_rings, scriptvars>>

\* One iteration on an intersecting county: its record is appended.
RecordCounty ==
    /\ pc = "loop"
    /\ idx <= Len(state_counties)
    /\ intersects(state_counties[idx].geometry, district_geom)
    /\ ~DivisionRaises(state_counties[idx])
    /\ intersecting_counties' =
           Append(intersecting_counties,
                  CountyInfo(state_counties[idx], district_geom))
    /\ idx' = idx + 1
    /\ UNCHANGED <<district_code, state_fips, district_geom, counties_gdf,
                   state_counties, counties_geojson, report, pc>>
    /\ UNCHANGED <<runvars, county_rings, scriptvars>>

\* One iteration on an intersecting county of area 0: the division raises,
\* analyze_counties is left by the exception and run() returns False.
DivisionError ==
    /\ pc = "loop"
    /\ idx <= Len(state_counties)
    /\ intersects(state_counties[idx].geometry, district_geom)
    /\ DivisionRaises(state_counties[idx])
    /\ pc' = "failed"
    /\ raised' = "analyze_counties"
    /\ UNCHANGED <<district_code, state_fips, district_geom, counties_gdf,
                   state_counties, idx, intersecting_counties,
                   counties_geojson, report>>
    /\ UNCHANGED <<districts_gdf, district_num, steps, temp_dirs,
                   index_html, run_result, exit_status, county_rings,
                   scriptvars>>

\* After the loop, lines 161-192: sort, write counties.geojson, write the
\* report, return the sorted list.
SortAndSave ==
    /\ pc = "loop"
    /\ idx > Len(state_counties)
    /\ LET sorted == SortByRatio(intersecting_counties)
       IN  /\ intersecting_counties' = sorted
           /\ counties_geojson' =
                  <<[i \in 1..Len(sorted) |-> Feature(sorted[i])]>>
           /\ report' = <<BuildReport(district_code, sorted)>>
    /\ pc' = "done"
    /\ UNCHANGED <<district_code, state_fips, district_geom, counties_gdf,
                   state_counties, idx>>
    /\ UNCHANGED <<runvars, county_rings, scriptvars>>

Next ==
    \/ LoadCounties
    \/ SkipCounty
    \/ RecordCounty
    \/ DivisionError
    \/ SortAndSave

Spec == Init /\ [][Next]_vars

\* ------------------------------------------------- malformed county rings
\* Longest county table of the specification with malformed rings.
MaxRingCounties == 2

\* The outer ring of a box as stored without its closing coordinate
\* (first /= last).
OpenRing(g) ==
    << <<g.minx, g.miny>>, <<g.maxx, g.miny>>, <<g.maxx, g.maxy>>,
       <<g.minx, g.maxy>> >>

RingTables ==
    { t \in CountyTables : Len(t) <= MaxRingCounties }

\* As Init, with the outer ring of each county stored closed or open in the
\* county shapefile.
InitRing ==
    /\ district_code \in DistrictCodes
    /\ state_fips = get_state_fips(district_code)
    /\ district_geom \in DistrictPool
    /\ counties_gdf \in RingTables
    /\ county_rings \in
           [1..Len(counties_gdf) ->
                UNION { {ClosedRing(g), OpenRing(g)} :
                            g \in { c.geometry : c \in CountyPool } }]
    /\ \A i \in 1..Len(counties_gdf) :
           county_rings[i] \in { ClosedRing(counties_gdf[i].geometry),
                                 OpenRing(counties_gdf[i].geometry) }
    /\ state_counties = <<>>
    /\ idx = 0
    /\ intersecting_counties = <<>>
    /\ counties_geojson = <<>>
    /\ report = <<>>
    /\ pc = "load"
    /\ districts_gdf = <<>>
    /\ district_num = get_district_number(district_code)
    /\ steps = <<>>
    /\ raised = "none"
    /\ temp_dirs = TempDirs
    /\ index_html = FALSE
    /\ run_result = "none"
    /\ exit_status = NoExit
    /\ ScriptsIdle

\* gpd.read_file(county_files[0]), line 126, on a table that holds an open
\* ring: the geometry reader of the installation may refuse the ring, and
\* the exception leaves analyze_counties.  analyze_counties itself inspects
\* no ring: when the reader closes the ring implicitly and delivers the
\* region, LoadCounties goes on as for any other table.
ReadRaises ==
    /\ pc = "load"
    /\ \E i \in 1..Len(counties_gdf) :
           county_rings[i][1] /= county_rings[i][Len(county_rings[i])]
    /\ pc' = "failed"
    /\ raised' = "analyze_counties"
    /\ steps' = Append(steps, "analyze_counties")
    /\ UNCHANGED <<district_code, state_fips, district_geom, counties_gdf,
                   state_counties, idx, intersecting_counties,
                   counties_geojson, report>>
    /\ UNCHANGED <<districts_gdf, district_num, temp_dirs, index_html,
                   run_result, exit_status, county_rings, scriptvars>>

NextRing ==
    \/ ReadRaises
    \/ LoadCounties
    \/ SkipCounty
    \/ RecordCounty
    \/ DivisionError
    \/ SortAndSave

SpecRing == InitRing /\ [][NextRing]_vars

\* ------------------------------------------------------ src/scripts inputs
\* Longest outer ring of a boundary handed to the simplification.
MaxRingLen == 7

\* KY06_COUNTIES of extract_ky06_counties.py and of extract_exact_counties.
KY06_COUNTIES ==
    { "Anderson", "Bourbon", "Clark", "Fayette", "Franklin", "Harrison",
      "Jessamine", "Nicholas", "Scott", "Woodford" }

\* state_fips of BoundaryExtractor(state_fips="21", district_num="06").
ExtractorStateFips == "21"

\* Coordinates of boundary points, in millionths of a degree.
BoundaryPoints == { <<0, 0>>, <<14, -6>>, <<-27, 32>> }

\* Closed rings of n coordinates over the boundary points.
ClosedRings(n) ==
    { r \in [1..n -> BoundaryPoints] : r[1] = r[n] }

\* Outer rings that satisfy the ring invariant: closed, 4 or more
\* coordinates.
OuterRings == UNION { ClosedRings(n) : n \in 4..MaxRingLen }

\* A hole and the outer ring of a second part.
HoleRing == << <<0, 0>>, <<14, -6>>, <<0, 0>>, <<0, 0>> >>
SecondRings ==
    { << <<0, 0>>, <<14, -6>>, <<-27, 32>>, <<0, 0>> >>,
      << <<0, 0>>, <<14, -6>>, <<-27, 32>>, <<14, -6>>, <<0, 0>> >> }

\* Geometries of the district feature: a Polygon is a sequence of rings, a
\* MultiPolygon a sequence of Polygons.
BoundaryGeoms ==
    { [type |-> "Polygon", coordinates |-> <<r>>] : r \in OuterRings }
    \cup
    { [type |-> "MultiPolygon", coordinates |-> << <<r, HoleRing>>, <<q>> >>] :
          r \in OuterRings, q \in SecondRings }

\* round(c, 5) of a coordinate given in millionths of a degree.
Round5(c) ==
    LET q == c \div 10
        m == c % 10
    IN  IF m > 5 THEN (q + 1) * 10
        ELSE IF m < 5 THEN q * 10
        ELSE IF q % 2 = 0 THEN q * 10 ELSE (q + 1) * 10

\* round_coords on a ring.
RoundRing(r) == [i \in 1..Len(r) |-> <<Round5(r[i][1]), Round5(r[i][2])>>]

\* round_coords(geom['coordinates']): every coordinate of every ring.
round_coords(g) ==
    IF g.type = "Polygon"
    THEN [g EXCEPT !.coordinates =
              [j \in 1..Len(g.coordinates) |-> RoundRing(g.coordinates[j])]]
    ELSE [g EXCEPT !.coordinates =
              [i \in 1..Len(g.coordinates) |->
                  [j \in 1..Len(g.coordinates[i]) |->
                      RoundRing(g.coordinates[i][j])]]]

\* ring[::2]: the coordinates at the even Python indices 0, 2, 4, ...
EveryOther(r) == [i \in 1..((Len(r) + 1) \div 2) |-> r[2 * i - 1]]

\* The keep-every-other-point step on the outer ring of a Polygon or of
\* each part of a MultiPolygon; holes are left alone.
SimplifyGeom(g) ==
    IF g.type = "Polygon"
    THEN [g EXCEPT !.coordinates[1] = EveryOther(@)]
    ELSE IF g.type = "MultiPolygon"
    THEN [g EXCEPT !.coordinates =
              [i \in 1..Len(g.coordinates) |->
                  [g.coordinates[i] EXCEPT ![1] = EveryOther(@)]]]
    ELSE g

\* The features whose NAME is in KY06_COUNTIES, in file order.
RECURSIVE FilterNames(_)
FilterNames(features) ==
    IF features = <<>> THEN <<>>
    ELSE IF Head(features).NAME \in KY06_COUNTIES
         THEN <<Head(features)>> \o FilterNames(Tail(features))
         ELSE FilterNames(Tail(features))

\* The generator is not run: only its inputs are held.
GeneratorIdle ==
    /\ district_code = <<"K","Y","-","0","6">>
    /\ state_fips = get_state_fips(district_code)
    /\ state_counties = <<>>
    /\ idx = 0
    /\ intersecting_counties = <<>>
    /\ counties_geojson = <<>>
    /\ report = <<>>
    /\ pc = "idle"
    /\ districts_gdf = <<>>
    /\ district_num = get_district_number(district_code)
    /\ steps = <<>>
    /\ raised = "none"
    /\ temp_dirs = {}
    /\ index_html = FALSE
    /\ run_result = "none"
    /\ exit_status = NoExit

\* ------------------------------------------------- boundary simplification
\* The district feature read by simplify_boundary.py or handed to
\* create_simplified_versions.
InitSimplify ==
    /\ GeneratorIdle
    /\ district_geom \in DistrictPool
    /\ counties_gdf = <<>>
    /\ county_rings = <<>>
    /\ boundary_geom \in BoundaryGeoms
    /\ simplified = <<>>
    /\ district_counties = <<>>
    /\ script_pc = "idle"

\* simplify_boundary(): the coordinates are rounded and saved as
\* boundary.geojson, then every other point of the outer ring is dropped
\* and the result saved as boundary_simplified.geojson.
SimplifyBoundary ==
    /\ script_pc = "idle"
    /\ boundary_geom' = round_coords(boundary_geom)
    /\ simplified' = <<SimplifyGeom(round_coords(boundary_geom))>>
    /\ script_pc' = "simplify_boundary"
    /\ UNCHANGED <<district_code, state_fips, district_geom, counties_gdf,
                   state_counties, idx, intersecting_counties,
                   counties_geojson, report, pc, runvars, county_rings,
                   district_counties>>

\* BoundaryExtractor.create_simplified_versions: the exact data is saved as
\* it is and a deep copy with every other point of the outer ring dropped
\* is saved as the simplified version.
CreateSimplifiedVersions ==
    /\ script_pc = "idle"
    /\ simplified' = <<SimplifyGeom(boundary_geom)>>
    /\ script_pc' = "create_simplified_versions"
    /\ UNCHANGED <<district_code, state_fips, district_geom, counties_gdf,
                   state_counties, idx, intersecting_counties,
                   counties_geojson, report, pc, runvars, county_rings,
                   boundary_geom, district_counties>>

NextSimplify ==
    \/ SimplifyBoundary
    \/ CreateSimplifiedVersions

SpecSimplify == InitSimplify /\ [][NextSimplify]_vars

\* ------------------------------------------------ county extraction scripts
\* The county table the scripts read and the region of district KY-06.
InitExtract ==
    /\ GeneratorIdle
    /\ district_geom \in DistrictPool
    /\ counties_gdf \in CountyTables
    /\ county_rings = [i \in 1..Len(counties_gdf) |->
                           ClosedRing(counties_gdf[i].geometry)]
    /\ ScriptsIdle

\* BoundaryExtractor.extract_exact_counties: the counties of the state
\* (ogr2ogr -where STATEFP) whose NAME is in KY06_COUNTIES.
ExtractExactCounties ==
    /\ script_pc = "idle"
    /\ district_counties' =
           <<FilterNames(FilterState(counties_gdf, ExtractorStateFips))>>
    /\ script_pc' = "extract_exact_counties"
    /\ UNCHANGED <<district_code, state_fips, district_geom, counties_gdf,
                   state_counties, idx, intersecting_counties,
                   counties_geojson, report, pc, runvars, county_rings,
                   boundary_geom, simplified>>

\* extract_counties of extract_ky06_counties.py: the features of
\* all_counties.geojson whose NAME is in KY06_COUNTIES.
ExtractCounties ==
    /\ script_pc = "idle"
    /\ district_counties' = <<FilterNames(counties_gdf)>>
    /\ script_pc' = "extract_counties"
    /\ UNCHANGED <<district_code, state_fips, district_geom, counties_gdf,
                   state_counties, idx, intersecting_counties,
                   counties_geojson, report, pc, runvars, county_rings,
                   boundary_geom, simplified>>

NextExtract ==
    \/ ExtractExactCounties
    \/ ExtractCounties

SpecExtract == InitExtract /\ [][NextExtract]_vars

\* ------------------------------------------------------------ run and main
\* Longest county table of the specification of run().
MaxRunCounties == 2

\* District codes given to main: numbers with a leading zero, without one,
\* the at-large number 00, and a state that fips_map does not know.
RunCodes ==
    { <<"K","Y","-","0","6">>, <<"K","Y","-","1","2">>,
      <<"O","H","-","1","1">>, <<"A","K","-","0","0">>,
      <<"X","X","-","1","2">> }

DistrictRow(cd119fp, g) == [CD119FP |-> cd119fp, geometry |-> g]

\* Tables the district shapefile of the state may hold; CD119FP is the
\* two-character district number of the Census files.
DistrictTables ==
    { << DistrictRow(<<"0","6">>, box(0, 0, 10, 10)),
         DistrictRow(<<"1","2">>, box(0, 0, 20, 20)) >>,
      << DistrictRow(<<"0","0">>, box(0, 0, 10, 10)) >>,
      << DistrictRow(<<"1","1">>, box(0, 0, 20, 20)),
         DistrictRow(<<"1","2">>, box(0, 0, 10, 10)) >> }

RunTables == { t \in CountyTables : Len(t) <= MaxRunCounties }

\* district_geom while no district row is selected.
NoGeom == box(0, 0, 0, 0)

\* districts_gdf[districts_gdf['CD119FP'] == self.district_num]
RECURSIVE FilterDistrict(_, _)
FilterDistrict(gdf, num) ==
    IF gdf = <<>> THEN <<>>
    ELSE IF Head(gdf).CD119FP = num
         THEN <<Head(gdf)>> \o FilterDistrict(Tail(gdf), num)
         ELSE FilterDistrict(Tail(gdf), num)

\* main: the generator is constructed for the code of the command line;
\* the Census server holds the district table and the county table.
InitRun ==
    /\ district_code \in RunCodes
    /\ state_fips = get_state_fips(district_code)
    /\ district_num = get_district_number(district_code)
    /\ districts_gdf \in DistrictTables
    /\ counties_gdf \in RunTables
    /\ county_rings = [i \in 1..Len(counties_gdf) |->
                           ClosedRing(counties_gdf[i].geometry)]
    /\ district_geom = NoGeom
    /\ state_counties = <<>>
    /\ idx = 0
    /\ intersecting_counties = <<>>
    /\ counties_geojson = <<>>
    /\ report = <<>>
    /\ pc = "download"
    /\ steps = <<>>
    /\ raised = "none"
    /\ temp_dirs = {}
    /\ index_html = FALSE
    /\ run_result = "none"
    /\ exit_status = NoExit
    /\ ScriptsIdle

\* What no step of run() outside the county analysis changes.
AnalysisUnchanged ==
    UNCHANGED <<district_code, state_fips, counties_gdf, state_counties, idx,
                intersecting_counties, counties_geojson, report,
                districts_gdf, district_num, county_rings, scriptvars>>

\* Step 1, download_census_data: both archives are fetched and extracted.
\* The URL of a state unknown to fips_map does not exist.
Download ==
    /\ pc = "download"
    /\ state_fips /= "None"
    /\ steps' = Append(steps, "download_census_data")
    /\ temp_dirs' = temp_dirs \cup {"districts_raw", "counties_raw"}
    /\ pc' = "district"
    /\ AnalysisUnchanged
    /\ UNCHANGED <<district_geom, raised, index_html, run_result, exit_status>>

\* Step 1 raises in _download_file (raise_for_status): on the district
\* archive before anything is extracted, or on the county archive after
\* districts_raw was extracted.
DownloadRaises ==
    /\ pc = "download"
    /\ steps' = Append(steps, "download_census_data")
    /\ \/ temp_dirs' = temp_dirs
       \/ /\ state_fips /= "None"
          /\ temp_dirs' = temp_dirs \cup {"districts_raw"}
    /\ raised' = "download_census_data"
    /\ pc' = "failed"
    /\ AnalysisUnchanged
    /\ UNCHANGED <<district_geom, index_html, run_result, exit_status>>

\* Step 2, process_district_boundary: the row of the district is found and
\* returned (boundary.geojson and boundary_simplified.geojson are written).
ProcessDistrictBoundary ==
    /\ pc = "district"
    /\ FilterDistrict(districts_gdf, district_num) /= <<>>
    /\ steps' = Append(steps, "process_district_boundary")
    /\ district_geom' = FilterDistrict(districts_gdf, district_num)[1].geometry
    /\ pc' = "load"
    /\ AnalysisUnchanged
    /\ UNCHANGED <<raised, temp_dirs, index_html, run_result, exit_status>>

\* Step 2 raises ValueError: no row has CD119FP == self.district_num.
DistrictNotFound ==
    /\ pc = "district"
    /\ FilterDistrict(districts_gdf, district_num) = <<>>
    /\ steps' = Append(steps, "process_district_boundary")
    /\ raised' = "process_district_boundary"
    /\ pc' = "failed"
    /\ AnalysisUnchanged
    /\ UNCHANGED <<district_geom, temp_dirs, index_html, run_result,
                   exit_status>>

\* Step 4, generate_map: index.html is saved.
GenerateMap ==
    /\ pc = "done"
    /\ steps' = Append(steps, "generate_map")
    /\ index_html' = TRUE
    /\ pc' = "cleanup"
    /\ AnalysisUnchanged
    /\ UNCHANGED <<district_geom, raised, temp_dirs, run_result, exit_status>>

\* Variant of GenerateMapRaises: the error is swallowed and run() goes on
\* to the cleanup.
GenerateMapRaises_ThenCleanup ==
    /\ pc = "done"
    /\ steps' = Append(steps, "generate_map")
    /\ raised' = "generate_map"
    /\ pc' = "cleanup"
    /\ AnalysisUnchanged
    /\ UNCHANGED <<district_geom, temp_dirs, index_html, run_result,
                   exit_status>>

\* Step 4 raises (a file of the output directory cannot be read, or
\* index.html cannot be written).
GenerateMapRaises ==
    /\ pc = "done"
    /\ steps' = Append(steps, "generate_map")
    /\ raised' = "generate_map"
    /\ pc' = "failed"
    /\ AnalysisUnchanged
    /\ UNCHANGED <<district_geom, temp_dirs, index_html, run_result,
                   exit_status>>

\* Step 5, cleanup_temp_files: the raw directories are removed.
Cleanup ==
    /\ pc = "cleanup"
    /\ steps' = Append(steps, "cleanup_temp_files")
    /\ temp_dirs' = temp_dirs \ TempDirs
    /\ pc' = "finished"
    /\ AnalysisUnchanged
    /\ UNCHANGED <<district_geom, raised, index_html, run_result, exit_status>>

\* Step 5 raises in shutil.rmtree, on the first directory or on the second.
CleanupRaises ==
    /\ pc = "cleanup"
    /\ steps' = Append(steps, "cleanup_temp_files")
    /\ \/ temp_dirs' = temp_dirs
       \/ temp_dirs' = temp_dirs \ {"districts_raw"}
    /\ raised' = "cleanup_temp_files"
    /\ pc' = "failed"
    /\ AnalysisUnchanged
    /\ UNCHANGED <<district_geom, index_html, run_result, exit_status>>

\* run(): all steps are through, return True.
RunReturnsTrue ==
    /\ pc = "finished"
    /\ run_result' = "True"
    /\ pc' = "returned"
    /\ AnalysisUnchanged
    /\ UNCHANGED <<district_geom, steps, raised, temp_dirs, index_html,
                   exit_status>>

\* run(): except Exception: the error is printed, return False.
RunReturnsFalse ==
    /\ pc = "failed"
    /\ run_result' = "False"
    /\ pc' = "returned"
    /\ AnalysisUnchanged
    /\ UNCHANGED <<district_geom, steps, raised, temp_dirs, index_html,
                   exit_status>>

\* main: sys.exit(0 if success else 1)
MainExit ==
    /\ pc = "returned"
    /\ exit_status' = IF run_result = "True" THEN 0 ELSE 1
    /\ pc' = "exited"
    /\ AnalysisUnchanged
    /\ UNCHANGED <<district_geom, steps, raised, temp_dirs, index_html,
                   run_result>>

NextRun ==
    \/ Download
    \/ DownloadRaises
    \/ ProcessDistrictBoundary
    \/ DistrictNotFound
    \/ LoadCounties
    \/ SkipCounty
    \/ RecordCounty
    \/ DivisionError
    \/ SortAndSave
    \/ GenerateMap
    \/ GenerateMapRaises
    \/ Cleanup
    \/ CleanupRaises
    \/ RunReturnsTrue
    \/ RunReturnsFalse
    \/ MainExit

SpecRun == InitRun /\ [][NextRun]_vars

\* ---------------------------------------------------------------- helpers
\* The two closed regions have a point in common (corners are integers, so
\* a common point exists exactly when a common grid point exists).
SharesPoint(a, b) ==
    \E x \in a.minx..a.maxx, y \in a.miny..a.maxy :
        /\ b.minx <= x /\ x <= b.maxx
        /\ b.miny <= y /\ y <= b.maxy

\* Positions of the records of a county in the overlap result.
RecordsOf(geoid) ==
    { k \in 1..Len(intersecting_counties) :
          intersecting_counties[k].GEOID = geoid }

\* County names in ascending (alphabetical) order.
NameOrder ==
    <<"Anderson", "Bourbon", "Clark", "Estill", "Fayette", "Hamilton",
      "Jessamine", "Madison", "Pike", "Scott", "Woodford">>

NameRank(n) == CHOOSE i \in 1..Len(NameOrder) : NameOrder[i] = n

\* Position of a county in the candidate table.
TableIndex(geoid) ==
    CHOOSE i \in 1..Len(state_counties) : state_counties[i].GEOID = geoid

\* The report analyze_counties writes for a county table gdf, for the
\* district of this run.
ReportFor(gdf) ==
    BuildReport(district_code,
                SortByRatio(Overlaps(FilterState(gdf, state_fips),
                                     district_geom)))

\* All orders in which the rows of a table can be supplied.
Perms(s) ==
    { [i \in 1..Len(s) |-> s[f[i]]] : f \in Permutations(1..Len(s)) }

Written == report /= <<>>

\* ------------------------------------------------------------------ claims
\* C1: when the analysis returns, the overlap result holds exactly one
\* record for each candidate county whose region has a point in common with
\* the district, no record for a candidate county that has none, and no
\* record of anything that is not a candidate.
C1_ExactlyIntersecting ==
    pc = "done" =>
        /\ \A i \in 1..Len(state_counties) :
               Cardinality(RecordsOf(state_counties[i].GEOID)) =
                   IF SharesPoint(state_counties[i].geometry, district_geom)
                   THEN 1 ELSE 0
        /\ \A k \in 1..Len(intersecting_counties) :
               \E i \in 1..Len(state_counties) :
                   state_counties[i].GEOID = intersecting_counties[k].GEOID

C1_Witness ==
    /\ pc = "done"
    /\ \E i, j \in 1..Len(state_counties) :
           /\ SharesPoint(state_counties[i].geometry, district_geom)
           /\ ~SharesPoint(state_counties[j].geometry, district_geom)
           /\ RecordsOf(state_counties[i].GEOID) /= {}

\* C2: in every report written, full_counties + partial_counties equals
\* total_counties, and total_counties is the number of per-county entries.
C2_CountsAddUp ==
    Written =>
        /\ report[1].full_counties + report[1].partial_counties
               = report[1].total_counties
        /\ report[1].total_counties = Len(report[1].counties)

C2_Witness ==
    /\ Written
    /\ report[1].full_counties >= 1
    /\ report[1].partial_counties >= 1
    /\ \E k \in 1..Len(intersecting_counties) :
           intersecting_counties[k].coverage_ratio = [num |-> 19, den |-> 20]

\* C3: a record is flagged full exactly when its coverage ratio is strictly
\* greater than 0.95, and its report entry is labelled "full" exactly then
\* and "partial" otherwise; a ratio of exactly 0.95 is "partial".
C3_StrictThreshold ==
    /\ \A k \in 1..Len(intersecting_counties) :
           LET r == intersecting_counties[k].coverage_ratio
           IN  intersecting_counties[k].is_full <=> (100 * r.num > 95 * r.den)
    /\ Written =>
           \A k \in 1..Len(report[1].counties) :
               LET r == intersecting_counties[k].coverage_ratio
               IN  /\ report[1].counties[k].geoid = intersecting_counties[k].GEOID
                   /\ report[1].counties[k].type =
                          IF 100 * r.num > 95 * r.den THEN "full" ELSE "partial"

C3_Witness ==
    /\ Written
    /\ \E k, l \in 1..Len(report[1].counties) :
           /\ intersecting_counties[k].coverage_ratio = [num |-> 19, den |-> 20]
           /\ report[1].counties[k].coverage_ratio = 9500
           /\ report[1].counties[k].type = "partial"
           /\ report[1].counties[l].type = "full"

\* C4 as claimed: the report entries are in descending order of coverage
\* ratio, and entries of equal ratio are in ascending order of county name.
C4_ByRatioThenName ==
    Written =>
        \A k \in 1..(Len(intersecting_counties) - 1) :
            LET a == intersecting_counties[k]
                b == intersecting_counties[k + 1]
            IN  /\ report[1].counties[k].name = a.NAME
                /\ report[1].counties[k + 1].name = b.NAME
                /\ ~RatioGT(b.coverage_ratio, a.coverage_ratio)
                /\ RatioEQ(a.coverage_ratio, b.coverage_ratio)
                       => NameRank(a.NAME) < NameRank(b.NAME)

\* C4 as amended: the report entries are in descending order of coverage
\* ratio, and entries of equal ratio are in the order in which their
\* counties stand in the candidate table.
C4_ByRatioThenTableOrder ==
    Written =>
        \A k, l \in 1..Len(intersecting_counties) :
            k < l =>
                LET a == intersecting_counties[k]
                    b == intersecting_counties[l]
                IN  /\ report[1].counties[k].geoid = a.GEOID
                    /\ report[1].counties[l].geoid = b.GEOID
                    /\ report[1].counties[k].coverage_ratio
                           >= report[1].counties[l].coverage_ratio
                    /\ ~RatioGT(b.coverage_ratio, a.coverage_ratio)
                    /\ RatioEQ(a.coverage_ratio, b.coverage_ratio)
                           => TableIndex(a.GEOID) < TableIndex(b.GEOID)

\* Two entries of equal ratio whose table order is the reverse of their name
\* order, next to an entry of a different ratio that the sort had to move.
C4_Witness ==
    /\ Written
    /\ \E k, l, m \in 1..Len(intersecting_counties) :
           /\ k < l
           /\ RatioEQ(intersecting_counties[k].coverage_ratio,
                      intersecting_counties[l].coverage_ratio)
           /\ NameRank(intersecting_counties[k].NAME)
                  > NameRank(intersecting_counties[l].NAME)
           /\ RatioGT(intersecting_counties[k].coverage_ratio,
                      intersecting_counties[m].coverage_ratio)
           /\ TableIndex(intersecting_counties[m].GEOID)
                  < TableIndex(intersecting_counties[k].GEOID)

\* C5 as claimed: the ordered county list of the report is the same for
\* every order in which the rows of the county table are supplied.
C5_OrderIndependent ==
    pc = "done" =>
        \A p \in Perms(counties_gdf) :
            ReportFor(p).counties = report[1].counties

\* No two records of the overlap result have the same coverage ratio.
NoTies ==
    \A k, l \in 1..Len(intersecting_counties) :
        k /= l => ~RatioEQ(intersecting_counties[k].coverage_ratio,
                           intersecting_counties[l].coverage_ratio)

\* C5 as amended: for every order in which the rows of the county table are
\* supplied the report has the same counts, the same set of entries and the
\* same sequence of coverage ratios; the ordered county list is identical
\* whenever no two intersecting counties have equal coverage ratios.
C5_OrderIndependentUpToTies ==
    pc = "done" =>
        \A p \in Perms(counties_gdf) :
            LET r == ReportFor(p)
            IN  /\ r.total_counties = report[1].total_counties
                /\ r.full_counties = report[1].full_counties
                /\ r.partial_counties = report[1].partial_counties
                /\ { r.counties[i] : i \in 1..Len(r.counties) }
                       = { report[1].counties[i] :
                               i \in 1..Len(report[1].counties) }
                /\ \A i \in 1..Len(r.counties) :
                       r.counties[i].coverage_ratio
                           = report[1].counties[i].coverage_ratio
                /\ NoTies => r.counties = report[1].counties

\* Three intersecting counties of different ratios, supplied out of order.
C5_Witness ==
    /\ pc = "done"
    /\ Len(intersecting_counties) >= 3
    /\ NoTies
    /\ \E k, l \in 1..Len(intersecting_counties) :
           /\ k < l
           /\ TableIndex(intersecting_counties[k].GEOID)
                  > TableIndex(intersecting_counties[l].GEOID)

\* C6 as claimed: a county of positive area that has a point in common with
\* the district but an intersection of area 0 has no record in the overlap
\* result and no entry in the report.
C6_TouchingExcluded ==
    \A i \in 1..Len(state_counties) :
        ( /\ SharesPoint(state_counties[i].geometry, district_geom)
          /\ area(state_counties[i].geometry) > 0
          /\ intersection_area(state_counties[i].geometry, district_geom) = 0 )
        => /\ RecordsOf(state_counties[i].GEOID) = {}
           /\ Written =>
                  \A k \in 1..Len(report[1].counties) :
                      report[1].counties[k].geoid /= state_counties[i].GEOID

\* C7 as claimed: every record has 0 < coverage_ratio <= 1, and no report
\* entry carries a ratio above 1.0.
C7_RatioInRange ==
    /\ \A k \in 1..Len(intersecting_counties) :
           LET r == intersecting_counties[k].coverage_ratio
           IN  r.num > 0 /\ r.num <= r.den
    /\ Written =>
           \A k \in 1..Len(report[1].counties) :
               report[1].counties[k].coverage_ratio <= RatioScale

\* C8 as claimed: an intersecting county of area 0 does not abort the run;
\* it alone is left out and every other intersecting county is reported.
C8_DegenerateCountyNotFatal ==
    /\ pc /= "failed"
    /\ pc = "done" =>
           \A i \in 1..Len(state_counties) :
               SharesPoint(state_counties[i].geometry, district_geom) =>
                   (RecordsOf(state_counties[i].GEOID) /= {}
                        <=> area(state_counties[i].geometry) > 0)

\* No candidate county has a point in common with the district.
NoneIntersects ==
    \A i \in 1..Len(state_counties) :
        ~SharesPoint(state_counties[i].geometry, district_geom)

\* C9: when the candidate collection is empty or none of its counties
\* intersects the district, the analysis raises nothing and the report it
\* writes has total_counties = 0, full_counties = 0, partial_counties = 0
\* and an empty county list.
C9_EmptyResultSucceeds ==
    (pc /= "load" /\ NoneIntersects) =>
        /\ pc /= "failed"
        /\ pc = "done" =>
               /\ report = <<[district |-> district_code,
                              total_counties |-> 0,
                              full_counties |-> 0,
                              partial_counties |-> 0,
                              counties |-> <<>>]>>
               /\ counties_geojson = << <<>> >>
               /\ intersecting_counties = <<>>

C9_Witness ==
    /\ pc = "done"
    /\ Len(state_counties) >= 2
    /\ NoneIntersects
    /\ report[1].total_counties = 0

\* The empty candidate collection: no row of the table is of the state.
C9_WitnessEmpty ==
    /\ pc = "done"
    /\ counties_gdf /= <<>>
    /\ state_counties = <<>>
    /\ report[1].total_counties = 0

\* Thresholds a caller would supply.
SuppliedThresholds == { [num |-> 95, den |-> 100], [num |-> 50, den |-> 100] }

\* C10 as claimed: for each threshold supplied, the label of every report
\* entry is "full" exactly when the record's ratio exceeds that threshold,
\* so a ratio of 0.6 is "full" under the threshold 0.5.
C10_ThresholdSupplied ==
    Written =>
        \A t \in SuppliedThresholds :
            \A k \in 1..Len(report[1].counties) :
                report[1].counties[k].type =
                    IF RatioGT(intersecting_counties[k].coverage_ratio, t)
                    THEN "full" ELSE "partial"

\* C10 as amended: the threshold is the fixed value 0.95 and no other value
\* can be supplied; the label of a report entry is taken from the flag
\* stored in the record, and a record whose ratio is above 0.5 and at most
\* 0.95 (0.6 for one) is "partial".
C10_FixedThreshold ==
    Written =>
        \A k \in 1..Len(report[1].counties) :
            LET c == intersecting_counties[k]
            IN  /\ (report[1].counties[k].type = "full") = c.is_full
                /\ report[1].counties[k].type \in {"full", "partial"}
                /\ ( /\ 100 * c.coverage_ratio.num > 50 * c.coverage_ratio.den
                     /\ 100 * c.coverage_ratio.num <= 95 * c.coverage_ratio.den )
                   => report[1].counties[k].type = "partial"

C10_Witness ==
    /\ Written
    /\ \E k \in 1..Len(report[1].counties) :
           /\ intersecting_counties[k].coverage_ratio = [num |-> 3, den |-> 5]
           /\ report[1].counties[k].coverage_ratio = 6000
           /\ report[1].counties[k].type = "partial"

\* Thresholds outside (0, 1] and the default, as a caller would supply them.
ThresholdsToValidate ==
    { [num |-> 0, den |-> 100], [num |-> 150, den |-> 100],
      [num |-> 95, den |-> 100] }

InUnitInterval(t) == t.num > 0 /\ t.num <= t.den

Inside(a, b) ==
    /\ b.minx <= a.minx /\ a.maxx <= b.maxx
    /\ b.miny <= a.miny /\ a.maxy <= b.maxy
    /\ a.minx < a.maxx /\ a.miny < a.maxy

\* Thresholds of the open interval (0, 1), in hundredths.
OpenUnitThresholds == { [num |-> n, den |-> 100] : n \in 1..99 }

\* C12: a county whose region lies entirely inside the district has a
\* record with intersection area equal to its area, the record is flagged
\* full and labelled "full" in the report, and its ratio exceeds every
\* threshold of the open interval (0, 1).
C12_InsideIsFull ==
    pc = "done" =>
        \A i \in 1..Len(state_counties) :
            Inside(state_counties[i].geometry, district_geom) =>
                \E k \in 1..Len(intersecting_counties) :
                    /\ intersecting_counties[k].GEOID = state_counties[i].GEOID
                    /\ intersecting_counties[k].coverage_ratio.num
                           = intersecting_counties[k].coverage_ratio.den
                    /\ intersecting_counties[k].is_full
                    /\ report[1].counties[k].geoid = state_counties[i].GEOID
                    /\ report[1].counties[k].type = "full"
                    /\ report[1].counties[k].coverage_ratio = RatioScale
                    /\ \A t \in OpenUnitThresholds :
                           RatioGT(intersecting_counties[k].coverage_ratio, t)

C12_Witness ==
    /\ pc = "done"
    /\ \E i, j \in 1..Len(state_counties) :
           /\ Inside(state_counties[i].geometry, district_geom)
           /\ ~Inside(state_counties[j].geometry, district_geom)
           /\ RecordsOf(state_counties[j].GEOID) /= {}
    /\ report[1].partial_counties >= 1

\* The rows of the candidate table are counties A, B and C of the scenario,
\* in any order, and the district is the square [0,0]-[10,10].
Scenario13 ==
    /\ district_geom = box(0, 0, 10, 10)
    /\ Len(state_counties) = 3
    /\ { state_counties[i].geometry : i \in 1..Len(state_counties) }
           = { box(2, 2, 4, 4), box(8, 8, 12, 12), box(20, 20, 22, 22) }

\* C13: for the district square [0,0]-[10,10] and counties A [2,2]-[4,4],
\* B [8,8]-[12,12] and C [20,20]-[22,22] the report has total_counties = 2,
\* full_counties = 1, partial_counties = 1 and the entries A (1.0, full),
\* B (0.25, partial) in this order; C does not appear.
C13_ScenarioReport ==
    (pc = "done" /\ Scenario13) =>
        /\ report[1].total_counties = 2
        /\ report[1].full_counties = 1
        /\ report[1].partial_counties = 1
        /\ Len(report[1].counties) = 2
        /\ report[1].counties[1].name = "Anderson"
        /\ report[1].counties[1].coverage_ratio = 10000
        /\ report[1].counties[1].type = "full"
        /\ report[1].counties[1].area = 4
        /\ report[1].counties[2].name = "Bourbon"
        /\ report[1].counties[2].coverage_ratio = 2500
        /\ report[1].counties[2].type = "partial"
        /\ report[1].counties[2].area = 16
        /\ \A k \in 1..Len(report[1].counties) :
               report[1].counties[k].name /= "Clark"

\* The scenario with county B supplied before county A.
C13_Witness ==
    /\ pc = "done"
    /\ Scenario13
    /\ state_counties[1].NAME = "Bourbon"
    /\ state_counties[3].NAME = "Anderson"
    /\ Len(report[1].counties) = 2

\* The ring invariant of a region: closed and of at least 4 coordinates.
RingWellFormed(r) == Len(r) >= 4 /\ r[1] = r[Len(r)]

\* A candidate county of the district's state whose ring is malformed.
MalformedCandidate ==
    \E i \in 1..Len(counties_gdf) :
        /\ counties_gdf[i].STATEFP = state_fips
        /\ ~RingWellFormed(county_rings[i])

\* C14 as claimed: when a candidate county region violates the ring
\* invariant, no county is tested for intersection, no overlap record is
\* produced and no report is written.
C14_MalformedRejected ==
    MalformedCandidate =>
        /\ idx <= 1
        /\ intersecting_counties = <<>>
        /\ ~Written
        /\ pc /= "done"

\* The counties a script has written for the district.
ExtractedGeoids ==
    { district_counties[1][k].GEOID : k \in 1..Len(district_counties[1]) }

\* C15 as claimed: a county of the table is in the output written for the
\* district exactly when its region has a point in common with the
\* district's region.
C15_ByIntersectionOnly ==
    district_counties /= <<>> =>
        \A i \in 1..Len(counties_gdf) :
            counties_gdf[i].STATEFP = ExtractorStateFips =>
                (counties_gdf[i].GEOID \in ExtractedGeoids
                     <=> SharesPoint(counties_gdf[i].geometry, district_geom))

\* Outer rings of a geometry, part by part.
OuterRingsOf(g) ==
    IF g.type = "Polygon" THEN <<g.coordinates[1]>>
    ELSE [i \in 1..Len(g.coordinates) |-> g.coordinates[i][1]]

\* C16 as claimed: every outer ring that is closed and has 4 or more
\* coordinates is, after the keep-every-other-point step, still closed and
\* of 4 or more coordinates.
C16_SimplifiedRingValid ==
    simplified /= <<>> =>
        \A i \in 1..Len(OuterRingsOf(boundary_geom)) :
            RingWellFormed(OuterRingsOf(boundary_geom)[i]) =>
                RingWellFormed(OuterRingsOf(simplified[1])[i])

\* The steps of run() in the order of the code.
RunOrder ==
    <<"download_census_data", "process_district_boundary",
      "analyze_counties", "generate_map", "cleanup_temp_files">>

\* C17: the steps run() has started are a prefix of download, district
\* boundary, county analysis, map generation, cleanup; once a step has
\* raised it is the last step started; when a step before the cleanup has
\* raised, the cleanup is not run and the raw directories extracted so far
\* are still there; run() returns False exactly when a step raised and True
\* only with all five steps through; main exits with status 0 exactly when
\* run() returned True, and with status 1 otherwise.
C17_RunStepOrder ==
    /\ Len(steps) <= Len(RunOrder)
    /\ \A i \in 1..Len(steps) : steps[i] = RunOrder[i]
    /\ raised /= "none" => (steps /= <<>> /\ steps[Len(steps)] = raised)
    /\ raised \in {"process_district_boundary", "analyze_counties",
                   "generate_map"} =>
           temp_dirs = TempDirs
    /\ report /= <<>> => Len(steps) >= 3
    /\ index_html => Len(steps) >= 4
    /\ run_result = "True" =>
           /\ steps = RunOrder
           /\ raised = "none"
           /\ temp_dirs = {}
           /\ index_html
           /\ report /= <<>>
    /\ run_result = "False" => raised /= "none"
    /\ pc \in {"returned", "exited"} =>
           /\ run_result \in {"True", "False"}
           /\ run_result = "False" <=> raised /= "none"
    /\ pc = "exited" <=> exit_status /= NoExit
    /\ exit_status /= NoExit =>
           /\ exit_status \in {0, 1}
           /\ exit_status = 0 <=> run_result = "True"

\* The map generation raised after a report was written: main has exited
\* with status 1 and both raw directories are still there.
C17_Witness ==
    /\ pc = "exited"
    /\ raised = "generate_map"
    /\ steps = SubSeq(RunOrder, 1, 4)
    /\ run_result = "False"
    /\ exit_status = 1
    /\ temp_dirs = TempDirs
    /\ report /= <<>>

\* A complete run: all five steps, True, status 0.
C17_WitnessSuccess ==
    /\ pc = "exited"
    /\ steps = RunOrder
    /\ run_result = "True"
    /\ exit_status = 0
    /\ report /= <<>>
    /\ report[1].total_counties >= 1

\* The two-digit number NN of a district code SS-NN.
CodeNumber == SubSeq(district_code, 4, 5)

\* C18 as claimed: when the district table holds a row whose CD119FP is the
\* two-digit number of the district code, process_district_boundary does
\* not raise 'District not found' and hands over exactly that row.
C18_PaddedNumberSelected ==
    ( /\ Len(steps) >= 2
      /\ \E i \in 1..Len(districts_gdf) : districts_gdf[i].CD119FP = CodeNumber )
    => /\ raised /= "process_district_boundary"
       /\ \E i \in 1..Len(districts_gdf) :
              /\ districts_gdf[i].CD119FP = CodeNumber
              /\ district_geom = districts_gdf[i].geometry

====
